---- MODULE Spec2Model ----
(***************************************************************************)
(* Alert detection and notification pipeline of the smart pollution        *)
(* monitoring backend (src/backend/alerts.py, scheduler.py, models.py,     *)
(* app.py).                                                                *)
(*                                                                         *)
(* The specifications share the state:                                     *)
(*   SeqSpec  every handler runs to completion as one step (the rules of   *)
(*            alerts.py as functions of the store);                        *)
(*   Spec     the threads of the process interleave at the granularity of  *)
(*            their store accesses (scheduler job, warm start, upload      *)
(*            request);                                                    *)
(*   DispSpec the notification threads beside the handlers of the device   *)
(*            endpoints;                                                   *)
(*   HourSpec the noise rules of one pass at every hour of the day;        *)
(*   FaultSpec the scheduler and its cycles when statements raise;         *)
(*   MsgSpec  the text of a high_aqi alert over windows of three records;  *)
(*   StatusSpec get_status beside the scheduler and its cycles;            *)
(*   LiveSpec the scheduler and its cycles under fair scheduling;          *)
(*   QuietSpec the quiet-hours test under every configuration of the hours; *)
(*   ListSpec the alert listing over more than a day;                       *)
(*   ResolveSpec resolve_alert with its return value;                       *)
(*   TokenSpec unregistration beside the steps of the notification threads. *)
(*                                                                         *)
(* Time is in minutes; Hour(t) is datetime.utcnow().hour.  utcnow() has    *)
(* microsecond resolution, so of two measurements stamped in the same      *)
(* model minute the one inserted later is the more recent.                 *)
(***************************************************************************)
EXTENDS Integers, Sequences, FiniteSets

VARIABLES
    now,            \* datetime.utcnow(), in minutes
    measurements,   \* table pollution_data, in insertion (id) order
    alerts,         \* table alerts, in insertion (id) order
    tokens,         \* table device_tokens, in insertion (id) order
    firebase,       \* alerts.messaging is set (init_firebase succeeded)
    dispatches,     \* notification threads started by _send_notification_async, each
                    \* with the id of the alert it announces, "pending" or how it ended,
                    \* and what it did: the endpoints active when it ran (snap), what
                    \* the sink answered (res), the calls of messaging.send per
                    \* endpoint (att), success_count (ok) and failure_count (fail)
    schedState,     \* BackgroundScheduler: "init" | "running" | "stopped"; "failed"
                    \* when start() itself raised
    jobRegistered,  \* job fetch_aqi_data is in the job store
    due,            \* the job's next_run_time has been reached and not yet processed
    instances,      \* APScheduler's count of running instances of the job
    listened,       \* the event _job_listener received last: "none" | "executed" | "error"
    pc,             \* position of each execution context
    loc,            \* locals of each execution context
    last            \* whether the step taken last was an evaluation pass ("eval", or
                    \* "again" for a pass repeated at once), with the alerts before
                    \* it (pre) and before the pass it repeats (pre0); or a call of
                    \* register_token ("register"), with the table before it (pre)
                    \* and its argument (pre0); or a fetch cycle that ended before
                    \* its evaluation (the reason), with the alerts (pre) and the
                    \* measurements and threads (pre0) before it; or a call of
                    \* get_status ("status"), with its report (pre0)

vars == <<now, measurements, alerts, tokens, firebase, dispatches, schedState,
          jobRegistered, due, instances, listened, pc, loc, last>>

storeVars == <<measurements, alerts, tokens>>
schedVars == <<schedState, jobRegistered, due, instances, listened>>

----------------------------------------------------------------------------
(* Program constants (src/backend/config.py, alerts.py AlertManager.__init__) *)

aqi_threshold == 150
aqi_duration_minutes == 15
noise_threshold == 80
quiet_hours_start == 22
quiet_hours_end == 6
max_instances == 1

NoNoise == -1      \* PollutionData.noise is NULL
NoTime == -1       \* Alert.resolved_at is NULL

AlertTypes == {"high_aqi", "high_noise"}
Tokens == {"t1", "t2"}

(* Bounds of the model *)
MaxMeas == 2       \* rows of pollution_data
MaxAlerts == 2     \* rows of alerts
MaxTicks == 2      \* clock advances
TickMinutes == 10  \* minutes per clock advance
MaxRaceMeas == 2   \* rows of pollution_data under Spec
MaxRaceAlerts == 2 \* rows of alerts under Spec
MaxRaceTicks == 1  \* clock advances under Spec
MaxListMeas == 2   \* rows of pollution_data under ListSpec
MaxListAlerts == 2 \* rows of alerts under ListSpec
MaxListTicks == 2  \* clock advances under ListSpec
ListTickMinutes == 780  \* minutes per clock advance under ListSpec: 13 hours

StartTimes == {21 * 60 + 50, 5 * 60 + 50}   \* 21:50 and 05:50
AqiValues == {150, 160}
NoiseValues == {NoNoise, 80, 85}
TsOffsets == {0, -20, 20}                    \* client timestamp relative to now

----------------------------------------------------------------------------
(* The rules of alerts.py and the model methods of models.py as functions *)

Hour(t) == (t \div 60) % 24

\* is_quiet_hours of an AlertManager configured with the hours start and end
is_quiet_hours(h, start, end) == h >= start \/ h < end

\* is_quiet_hours of check_noise_alert
IsQuietHoursAnd(h) == h >= quiet_hours_start /\ h < quiet_hours_end
IsQuietHours(h) == h >= quiet_hours_start \/ h < quiet_hours_end

\* is_quiet_hours of _auto_resolve_alerts, computed there a second time
IsQuietHoursResolveAnd(h) == h >= quiet_hours_start /\ h < quiet_hours_end
IsQuietHoursResolve(h) == h >= quiet_hours_start \/ h < quiet_hours_end

\* PollutionData.query.filter(timestamp >= cutoff_time): no upper limit
RecentRecordsUpToNow(meas, t) ==
    {i \in DOMAIN meas : meas[i].ts >= t - aqi_duration_minutes /\ meas[i].ts <= t}
RecentRecords(meas, t) ==
    {i \in DOMAIN meas : meas[i].ts >= t - aqi_duration_minutes}

AllAboveThresholdGe(meas, W) == \A i \in W : meas[i].aqi >= aqi_threshold
AllAboveThreshold(meas, W) == \A i \in W : meas[i].aqi > aqi_threshold

\* Alert.query.filter_by(alert_type=type, status='Active')
ActiveIdsAnyType(al, type) == {i \in DOMAIN al : al[i].status = "Active"}
ActiveIds(al, type) ==
    {i \in DOMAIN al : al[i].alert_type = type /\ al[i].status = "Active"}

\* PollutionData.get_latest: order_by(timestamp.desc()).first(); 0 when empty
GetLatest(meas) ==
    IF meas = <<>> THEN 0
    ELSE CHOOSE i \in DOMAIN meas :
            \A j \in DOMAIN meas :
                meas[j].ts < meas[i].ts \/ (meas[j].ts = meas[i].ts /\ j <= i)

\* f'{avg_aqi:.0f}' of sum(...) / len(...): the quotient as a decimal without
\* fraction digits, a tie going to the even neighbour
FormatF0Floor(total, n) == total \div n
FormatF0(total, n) ==
    LET q == total \div n
        r == total % n
    IN  IF 2 * r < n THEN q
        ELSE IF 2 * r > n THEN q + 1
        ELSE IF q % 2 = 0 THEN q ELSE q + 1

RECURSIVE SumAqi(_, _)
SumAqi(meas, W) ==
    IF W = {} THEN 0
    ELSE LET i == CHOOSE j \in W : TRUE IN meas[i].aqi + SumAqi(meas, W \ {i})

\* f'{latest.noise:.1f}' of a whole number of dB, in tenths
FormatF1(x) == x * 10

\* Alert.message: what the text is about and the numbers it prints
AqiMessage(meas, W) ==
    [about |-> "high_aqi", threshold |-> aqi_threshold,
     minutes |-> aqi_duration_minutes, value |-> FormatF0(SumAqi(meas, W), Cardinality(W))]
NoiseMessage(m) ==
    [about |-> "high_noise", threshold |-> noise_threshold, minutes |-> 0,
     value |-> FormatF1(m.noise)]
ManualMessage == [about |-> "manual", threshold |-> 0, minutes |-> 0, value |-> 0]
NoMessage == [about |-> "none", threshold |-> 0, minutes |-> 0, value |-> 0]

NewAlertStamped(type, message, t) ==
    [alert_type |-> type, message |-> message, status |-> "Active", resolved_at |-> t]
NewAlert(type, message, t) ==
    [alert_type |-> type, message |-> message, status |-> "Active", resolved_at |-> NoTime]

AlertResolveNoStamp(a, t) == [a EXCEPT !.status = "Resolved"]
AlertResolve(a, t) == [a EXCEPT !.status = "Resolved", !.resolved_at = t]

ResolveAll(al, ids, t) ==
    [i \in DOMAIN al |-> IF i \in ids THEN AlertResolve(al[i], t) ELSE al[i]]

AqiWindowTriggers(meas, t) ==
    LET W == RecentRecords(meas, t) IN W # {} /\ AllAboveThreshold(meas, W)

AqiShouldOpenNoExisting(meas, al, t) == AqiWindowTriggers(meas, t)
AqiShouldOpen(meas, al, t) ==
    AqiWindowTriggers(meas, t) /\ ActiveIds(al, "high_aqi") = {}

NoiseTriggersGe(meas, t) ==
    /\ IsQuietHours(Hour(t))
    /\ GetLatest(meas) # 0
    /\ meas[GetLatest(meas)].noise # NoNoise
    /\ meas[GetLatest(meas)].noise >= noise_threshold
NoiseTriggers(meas, t) ==
    /\ IsQuietHours(Hour(t))
    /\ GetLatest(meas) # 0
    /\ meas[GetLatest(meas)].noise # NoNoise
    /\ ~(meas[GetLatest(meas)].noise <= noise_threshold)

NoiseShouldOpen(meas, al, t) ==
    NoiseTriggers(meas, t) /\ ActiveIds(al, "high_noise") = {}

CheckAqiAlert(meas, al, t) ==
    IF AqiShouldOpen(meas, al, t)
    THEN Append(al, NewAlert("high_aqi", AqiMessage(meas, RecentRecords(meas, t)), t))
    ELSE al

CheckNoiseAlert(meas, al, t) ==
    IF NoiseShouldOpen(meas, al, t)
    THEN Append(al, NewAlert("high_noise", NoiseMessage(meas[GetLatest(meas)]), t))
    ELSE al

AqiShouldResolveLt(meas) ==
    GetLatest(meas) # 0 /\ meas[GetLatest(meas)].aqi < aqi_threshold
AqiShouldResolve(meas) ==
    GetLatest(meas) # 0 /\ meas[GetLatest(meas)].aqi <= aqi_threshold

NoiseShouldResolveAbsent(meas, t) ==
    /\ GetLatest(meas) # 0
    /\ \/ meas[GetLatest(meas)].noise <= noise_threshold
       \/ ~IsQuietHoursResolve(Hour(t))
NoiseShouldResolve(meas, t) ==
    /\ GetLatest(meas) # 0
    /\ \/ /\ meas[GetLatest(meas)].noise # NoNoise
          /\ meas[GetLatest(meas)].noise <= noise_threshold
       \/ ~IsQuietHoursResolve(Hour(t))

AutoResolveAqi(meas, al, t) ==
    IF AqiShouldResolve(meas) THEN ResolveAll(al, ActiveIds(al, "high_aqi"), t) ELSE al

AutoResolveNoise(meas, al, t) ==
    IF NoiseShouldResolve(meas, t)
    THEN ResolveAll(al, ActiveIds(al, "high_noise"), t) ELSE al

AutoResolveAlerts(meas, al, t) == AutoResolveNoise(meas, AutoResolveAqi(meas, al, t), t)

\* the alerts after the two open checks of check_all_alerts
AfterOpenChecks(meas, al, t) == CheckNoiseAlert(meas, CheckAqiAlert(meas, al, t), t)

CheckAllAlerts(meas, al, t) == AutoResolveAlerts(meas, AfterOpenChecks(meas, al, t), t)

\* one notification thread per alert the open checks created
\* a thread that has not run: nothing sent, nothing counted
NoSend == [x \in Tokens |-> "none"]
NoAttempts == [x \in Tokens |-> 0]

NewDispatch(id) ==
    [alert |-> id, st |-> "pending", snap |-> {}, res |-> NoSend,
     att |-> NoAttempts, ok |-> 0, fail |-> 0]

\* _send_notification_async: Thread(...).start() with daemon set and no join; the
\* threads whose end the caller waits for before it goes on
AwaitedJoin(ds) == {d \in DOMAIN ds : ds[d].st = "pending"}
Awaited(ds) == {}

NewDispatches(before, after) ==
    [k \in 1..(Len(after) - Len(before)) |-> NewDispatch(Len(before) + k)]

StoreMeasurementLost(meas, m) == meas
StoreMeasurement(meas, m) == Append(meas, m)

CommitAlertLost(al, a) == al
CommitAlert(al, a) == Append(al, a)

\* rows of device_tokens with the token x; filter_by(token=x).first() is the
\* one with the least id, 0 when there is none
TokenRows(tok, x) == {i \in DOMAIN tok : tok[i].token = x}
FirstRow(tok, x) ==
    IF TokenRows(tok, x) = {} THEN 0
    ELSE CHOOSE i \in TokenRows(tok, x) : \A j \in TokenRows(tok, x) : i <= j

IsActiveRow(r) == r.is_active
get_active_tokens(tok) == SelectSeq(tok, IsActiveRow)
ActiveTokensAll(tok) == {tok[i].token : i \in DOMAIN tok}
ActiveTokens(tok) == {tok[i].token : i \in {j \in DOMAIN tok : tok[j].is_active}}

register_token_insert(tok, x) == Append(tok, [token |-> x, is_active |-> TRUE])
register_token(tok, x) ==
    IF FirstRow(tok, x) # 0
    THEN [tok EXCEPT ![FirstRow(tok, x)].is_active = TRUE]
    ELSE Append(tok, [token |-> x, is_active |-> TRUE])

deactivate_token(tok, x) ==
    IF FirstRow(tok, x) # 0
    THEN [tok EXCEPT ![FirstRow(tok, x)].is_active = FALSE]
    ELSE tok

\* _send_push_notification: what it does to the two tables it can reach
\* outcome.kind: "not_init" (messaging unset) | "read_error" (get_active_tokens raised)
\*               | "sent" (outcome.res: what messaging.send did per token: "ok", or
\*                 an exception whose text names NotRegistered or InvalidRegistration
\*                 ("permanent"), or any other exception ("transient"))
IsPermanentAny(r) == r # "ok"
IsPermanent(r) == r = "permanent"

\* the loop over token_strings: one messaging.send per element, counted as a
\* success or a failure; a permanent failure deactivates the token
RECURSIVE SendLoop(_, _, _)
SendLoop(rows, res, acc) ==
    IF rows = <<>> THEN acc
    ELSE LET x == Head(rows).token IN
         SendLoop(Tail(rows), res,
                  [att |-> [acc.att EXCEPT ![x] = @ + 1],
                   ok |-> acc.ok + (IF res[x] = "ok" THEN 1 ELSE 0),
                   fail |-> acc.fail + (IF res[x] = "ok" THEN 0 ELSE 1),
                   tok |-> IF IsPermanent(res[x])
                           THEN deactivate_token(acc.tok, x) ELSE acc.tok])

DispatchRun(tok, outcome) ==
    IF outcome.kind # "sent"
    THEN [att |-> NoAttempts, ok |-> 0, fail |-> 0, tok |-> tok]
    ELSE SendLoop(get_active_tokens(tok), outcome.res,
                  [att |-> NoAttempts, ok |-> 0, fail |-> 0, tok |-> tok])

DispatchTokens(tok, outcome) == DispatchRun(tok, outcome).tok

DispatchAlertsRollback(al, d, outcome) ==
    IF outcome.kind # "sent"
    THEN [i \in DOMAIN al |-> IF i = d.alert THEN AlertResolve(al[i], NoTime) ELSE al[i]]
    ELSE al
DispatchAlerts(al, d, outcome) == al

\* APScheduler's max_instances guard in the executor's submit_job
CanSubmitAlways(n) == TRUE
CanSubmit(n) == n < max_instances

DispatchOutcomes ==
    IF ~firebase THEN {[kind |-> "not_init", res |-> NoSend]}
    ELSE {[kind |-> "read_error", res |-> NoSend]}
         \cup {[kind |-> "sent", res |-> r] :
                  r \in {f \in [Tokens -> {"none", "ok", "transient", "permanent"}] :
                            \A x \in Tokens : f[x] = "none" <=> x \notin ActiveTokens(tokens)}}

\* fetch_current_aqi: None after a timeout, a transport error or an upstream status
\* that is not ok; a result without an aqi value; or a reading
FetchFailures == {"timeout", "transport", "not_ok", "no_aqi"}
FetchResults ==
    {[ok |-> FALSE, aqi |-> 0, why |-> w] : w \in FetchFailures}
        \cup {[ok |-> TRUE, aqi |-> a, why |-> "none"] : a \in AqiValues}

\* fetch_and_store_aqi goes on to store: aqi_data is not None and has an aqi value
CycleStoresAlways(result) == TRUE
CycleStores(result) ==
    /\ result.why \notin {"timeout", "transport", "not_ok"}
    /\ result.why # "no_aqi"

\* fetch_and_store_aqi after an exception of db.session.commit(): the handler of
\* Exception logs and rolls back, and the function returns normally
CommitErrorPropagatesRaise == TRUE
CommitErrorPropagates == FALSE

\* what APScheduler's executor reports to the listeners when the job function ends
JobEvent(raised) == IF raised THEN "error" ELSE "executed"

\* datetime.now() of trigger_fetch_now is naive local time, which modify_job reads
\* in the scheduler's timezone: the same instant, one in the past, or one to come
LocalClocks == {"same", "behind", "ahead"}

\* shutdown(wait=False) leaves the threads of the pool running
ShutdownInterrupts(pcs) ==
    [p \in DOMAIN pcs |-> IF p \in {"job1", "job2"} THEN "idle" ELSE pcs[p]]
ShutdownNoWait(pcs) == pcs

NoEvent == [op |-> "none", pre |-> <<>>, pre0 |-> <<>>]

----------------------------------------------------------------------------
(* State after construction: create_app() and init_scheduler() have run,   *)
(* start() has not.                                                        *)

Cycles == {"job1", "job2", "warm"}     \* contexts that run fetch_and_store_aqi
Procs == Cycles \cup {"req"}           \* "req": an upload request handler

NoLocals == [mid |-> 0, msg |-> NoMessage]   \* msg: the text an open check has built

Init ==
    /\ now \in StartTimes
    /\ measurements = <<>>
    /\ alerts = <<>>
    /\ tokens = <<>>
    /\ firebase \in BOOLEAN
    /\ dispatches = <<>>
    /\ schedState = "init"
    /\ jobRegistered = FALSE
    /\ due = FALSE
    /\ instances = 0
    /\ listened = "none"
    /\ pc = [p \in Procs |-> "idle"]
    /\ loc = [p \in Procs |-> NoLocals]
    /\ last = NoEvent

\* init_firebase succeeded (under DispSpec it may also have failed)
SeqInit == Init /\ firebase

\* the state after construction at one of the times T, init_firebase having succeeded
InitAt(T) ==
    /\ now \in T
    /\ measurements = <<>>
    /\ alerts = <<>>
    /\ tokens = <<>>
    /\ firebase = TRUE
    /\ dispatches = <<>>
    /\ schedState = "init"
    /\ jobRegistered = FALSE
    /\ due = FALSE
    /\ instances = 0
    /\ listened = "none"
    /\ pc = [p \in Procs |-> "idle"]
    /\ loc = [p \in Procs |-> NoLocals]
    /\ last = NoEvent

\* the request layer serves once start_scheduler() has returned (app.run and the
\* WSGI server come after it), or when the scheduler is never started
Serving == pc["warm"] = "idle"

----------------------------------------------------------------------------
(* Handlers that are the same in the specifications *)

\* time passes
Tick(maxTicks) ==
    /\ \E s \in StartTimes : now >= s /\ now < s + maxTicks * TickMinutes
    /\ now' = now + TickMinutes
    /\ last' = NoEvent
    /\ UNCHANGED <<storeVars, firebase, dispatches, schedVars, pc, loc>>

\* AlertManager.create_manual_alert
CreateManualAlert(type, maxAlerts) ==
    /\ Len(alerts) < maxAlerts
    /\ alerts' = CommitAlert(alerts, NewAlert(type, ManualMessage, now))
    /\ last' = NoEvent
    /\ UNCHANGED <<now, measurements, tokens, firebase, dispatches, schedVars, pc, loc>>

\* AlertManager.resolve_alert: Alert.query.get(id), then alert.resolve()
ResolveAlert(id) ==
    /\ Serving
    /\ alerts' = IF id \in DOMAIN alerts THEN ResolveAll(alerts, {id}, now) ELSE alerts
    /\ last' = NoEvent
    /\ UNCHANGED <<now, measurements, tokens, firebase, dispatches, schedVars, pc, loc>>

\* POST /register-device: DeviceToken.register_token
RegisterToken(x) ==
    /\ tokens' = register_token(tokens, x)
    /\ last' = [op |-> "register", pre |-> tokens, pre0 |-> <<x>>]
    /\ UNCHANGED <<now, measurements, alerts, firebase, dispatches, schedVars, pc, loc>>

\* POST /unregister-device: DeviceToken.deactivate_token
DeactivateToken(x) ==
    /\ tokens' = deactivate_token(tokens, x)
    /\ last' = NoEvent
    /\ UNCHANGED <<now, measurements, alerts, firebase, dispatches, schedVars, pc, loc>>

\* a notification thread runs _send_push_notification to its end
RunDispatch(d, outcome) ==
    /\ d \in DOMAIN dispatches
    /\ dispatches[d].st = "pending"
    /\ dispatches' = [dispatches EXCEPT ![d] =
                          [alert |-> @.alert, st |-> outcome.kind,
                           snap |-> ActiveTokens(tokens), res |-> outcome.res,
                           att |-> DispatchRun(tokens, outcome).att,
                           ok |-> DispatchRun(tokens, outcome).ok,
                           fail |-> DispatchRun(tokens, outcome).fail]]
    /\ tokens' = DispatchTokens(tokens, outcome)
    /\ alerts' = DispatchAlerts(alerts, dispatches[d], outcome)
    /\ last' = NoEvent
    /\ UNCHANGED <<now, measurements, firebase, schedVars, pc, loc>>

----------------------------------------------------------------------------
(* SeqSpec: each handler runs alone, from its first statement to its last *)

\* check_all_alerts on the measurements meas
SeqPass(meas, op, pre0) ==
    /\ Len(AfterOpenChecks(meas, alerts, now)) <= MaxAlerts
    /\ alerts' = CheckAllAlerts(meas, alerts, now)
    /\ dispatches' = dispatches \o NewDispatches(alerts, AfterOpenChecks(meas, alerts, now))
    /\ last' = [op |-> op, pre |-> alerts, pre0 |-> pre0]

\* POST /upload: store the record, then check_all_alerts
UploadPass(aqi, noise, off, maxMeas) ==
    /\ Len(measurements) < maxMeas
    /\ measurements' =
          StoreMeasurement(measurements, [ts |-> now + off, aqi |-> aqi, noise |-> noise])
    /\ SeqPass(measurements', "eval", <<>>)
    /\ UNCHANGED <<now, tokens, firebase, schedVars, pc, loc>>

SeqUpload(aqi, noise, off) == UploadPass(aqi, noise, off, MaxMeas)

\* fetch_and_store_aqi: fetch, store, then _run_alert_checks
SeqFetchCycle(result, commitOk) ==
    /\ Len(measurements) < MaxMeas
    /\ IF ~CycleStores(result) \/ ~commitOk
       THEN /\ last' = [op |-> IF CycleStores(result) THEN "commit_failed" ELSE result.why,
                        pre |-> alerts, pre0 |-> <<measurements, dispatches>>]
            /\ UNCHANGED <<measurements, alerts, dispatches>>
       ELSE /\ measurements' =
                  StoreMeasurement(measurements,
                                   [ts |-> now, aqi |-> result.aqi, noise |-> NoNoise])
            /\ SeqPass(measurements', IF result.ok THEN "eval" ELSE result.why,
                       IF result.ok THEN <<>> ELSE <<measurements, dispatches>>)
    /\ UNCHANGED <<now, tokens, firebase, schedVars, pc, loc>>

\* check_all_alerts called again right after a pass, on the same measurements
SeqEvaluateAgain ==
    /\ last.op = "eval"
    /\ SeqPass(measurements, "again", last.pre)
    /\ UNCHANGED <<now, measurements, tokens, firebase, schedVars, pc, loc>>

SeqNext ==
    \/ Tick(MaxTicks)
    \/ \E aqi \in AqiValues, noise \in NoiseValues, off \in TsOffsets :
          SeqUpload(aqi, noise, off)
    \/ \E result \in FetchResults :
          \E commitOk \in (IF result.ok THEN BOOLEAN ELSE {TRUE}) :
              SeqFetchCycle(result, commitOk)
    \/ SeqEvaluateAgain
    \/ \E type \in AlertTypes : CreateManualAlert(type, MaxAlerts)
    \/ \E id \in 1..MaxAlerts : ResolveAlert(id)

\* the notification threads a pass starts do not run under SeqSpec: they touch
\* no alert and no measurement (DispatchAlerts)
SeqSpec == SeqInit /\ [][SeqNext]_vars

----------------------------------------------------------------------------
(* Spec: the threads of the process, one step per access to shared state *)

RaceNoiseValues == {NoNoise, 85}
PassPcs == {"aqi_check", "aqi_open", "noise_check", "noise_open", "resolve"}

\* the context leaves its handler; a job instance is handed back to the executor
\* an exception that leaves the warm-start call leaves start() and start_scheduler()
\* as well, and the process does not come up
Finish(p, raised) ==
    /\ pc' = [pc EXCEPT ![p] = "idle"]
    /\ loc' = [loc EXCEPT ![p] = NoLocals]
    /\ instances' = IF p \in {"job1", "job2"} THEN instances - 1 ELSE instances
    /\ listened' = IF p \in {"job1", "job2"} THEN JobEvent(raised) ELSE listened
    /\ schedState' = IF p = "warm" /\ raised THEN "failed" ELSE schedState

\* the context goes on to its next statement, or returns from check_all_alerts
\* and its caller
StepTo(p, next, msg) ==
    IF next = "return" THEN Finish(p, FALSE)
    ELSE /\ pc' = [pc EXCEPT ![p] = next]
         /\ loc' = [loc EXCEPT ![p].msg = msg]
         /\ UNCHANGED <<instances, listened, schedState>>

\* check_aqi_alert and check_noise_alert catch every Exception, log it and return
\* None: check_all_alerts goes on with its next statement
AfterErrorPropagates(next) == "return"
AfterError(next) == next

\* where _auto_resolve_alerts may raise: nowhere, before its first resolve, or
\* between the high_aqi and the high_noise part
ResolveFaults == {"none", "before", "between"}

\* PollutionScheduler.start: add_job, scheduler.start(), then the call of
\* fetch_and_store_aqi in the caller's thread, up to its network request
Start ==
    /\ schedState = "init"
    /\ pc["req"] = "idle"
    /\ schedState' = "running"
    /\ jobRegistered' = TRUE
    /\ pc' = [pc EXCEPT !["warm"] = "fetch"]
    /\ UNCHANGED <<now, storeVars, firebase, dispatches, due, instances, listened, loc,
                   last>>

\* the interval of the job's trigger elapses
TimerElapses ==
    /\ schedState = "running"
    /\ jobRegistered
    /\ ~due
    /\ due' = TRUE
    /\ UNCHANGED <<now, storeVars, firebase, dispatches, schedState, jobRegistered,
                   instances, listened, pc, loc, last>>

\* PollutionScheduler.trigger_fetch_now: get_job; modify_job(next_run_time =
\* datetime.now()).  A next_run_time in the past is beyond the misfire grace time and
\* its run is skipped; one to come puts off the run and replaces a firing that waits.
trigger_fetch_now_returns(job) == job

TriggerFetchNow(local) ==
    /\ Serving
    /\ due' = IF trigger_fetch_now_returns(jobRegistered) THEN local = "same" ELSE due
    /\ UNCHANGED <<now, storeVars, firebase, dispatches, schedState, jobRegistered,
                   instances, listened, pc, loc, last>>

\* the scheduler thread processes the due job: the executor runs it in a pool
\* thread unless max_instances is reached, and then the run is dropped
ProcessDue ==
    /\ schedState = "running"
    /\ jobRegistered
    /\ due
    /\ due' = FALSE
    /\ IF CanSubmit(instances)
       THEN LET p == IF pc["job1"] = "idle" THEN "job1" ELSE "job2" IN
               /\ pc[p] = "idle"
               /\ pc' = [pc EXCEPT ![p] = "fetch"]
               /\ instances' = instances + 1
       ELSE UNCHANGED <<pc, instances>>
    /\ UNCHANGED <<now, storeVars, firebase, dispatches, schedState, jobRegistered,
                   listened, loc, last>>

\* PollutionScheduler.stop: shutdown(wait=False); the job store is emptied
Stop ==
    /\ schedState = "running"
    /\ schedState' = "stopped"
    /\ jobRegistered' = FALSE
    /\ due' = FALSE
    /\ pc' = ShutdownNoWait(pc)
    /\ UNCHANGED <<now, storeVars, firebase, dispatches, instances, listened, loc, last>>

\* fetch_and_store_aqi: the fetch returns; on a reading the record is committed
FetchDone(p, result, commitOk) ==
    /\ pc[p] = "fetch"
    /\ IF ~CycleStores(result)
       THEN /\ Finish(p, FALSE)
            /\ UNCHANGED measurements
       ELSE IF ~commitOk
       THEN /\ Finish(p, CommitErrorPropagates)
            /\ UNCHANGED measurements
       ELSE /\ Len(measurements) < MaxRaceMeas
            /\ measurements' =
                  StoreMeasurement(measurements,
                                   [ts |-> now, aqi |-> result.aqi, noise |-> NoNoise])
            /\ pc' = [pc EXCEPT ![p] = "aqi_check"]
            /\ loc' = [loc EXCEPT ![p].mid = Len(measurements) + 1]
            /\ UNCHANGED <<instances, listened, schedState>>
    /\ UNCHANGED <<now, alerts, tokens, firebase, dispatches, jobRegistered, due, last>>

\* upload_pollution_data: the record is committed
Upload(aqi, noise, off) ==
    /\ Serving
    /\ pc["req"] = "idle"
    /\ Len(measurements) < MaxRaceMeas
    /\ measurements' =
          StoreMeasurement(measurements, [ts |-> now + off, aqi |-> aqi, noise |-> noise])
    /\ pc' = [pc EXCEPT !["req"] = "aqi_check"]
    /\ loc' = [loc EXCEPT !["req"].mid = Len(measurements) + 1]
    /\ UNCHANGED <<now, alerts, tokens, firebase, dispatches, schedVars, last>>

\* check_aqi_alert: the window query and the query for an Active high_aqi record
\* raised: one of its statements raised
AqiCheck(p, raised) ==
    /\ pc[p] = "aqi_check"
    /\ IF raised THEN StepTo(p, AfterError("noise_check"), NoMessage)
       ELSE IF AqiShouldOpen(measurements, alerts, now)
       THEN StepTo(p, "aqi_open",
                   AqiMessage(measurements, RecentRecords(measurements, now)))
       ELSE StepTo(p, "noise_check", NoMessage)
    /\ UNCHANGED <<now, storeVars, firebase, dispatches, jobRegistered, due, last>>

\* check_aqi_alert / check_noise_alert: session.add, commit, then the thread is started
\* raised: the commit raised, and no thread is started
OpenAlert(p, at, type, next, raised) ==
    /\ pc[p] = at
    /\ IF raised
       THEN /\ StepTo(p, AfterError(next), NoMessage)
            /\ UNCHANGED <<alerts, dispatches>>
       ELSE /\ Len(alerts) < MaxRaceAlerts
            /\ alerts' = CommitAlert(alerts, NewAlert(type, loc[p].msg, now))
            /\ dispatches' = Append(dispatches, NewDispatch(Len(alerts) + 1))
            /\ StepTo(p, next, NoMessage)
    /\ UNCHANGED <<now, measurements, tokens, firebase, jobRegistered, due, last>>

\* check_noise_alert: the hour, the latest record, the query for an Active high_noise
NoiseCheck(p, raised) ==
    /\ pc[p] = "noise_check"
    /\ Awaited(dispatches) = {}
    /\ IF raised THEN StepTo(p, AfterError("resolve"), NoMessage)
       ELSE IF NoiseShouldOpen(measurements, alerts, now)
       THEN StepTo(p, "noise_open", NoiseMessage(measurements[GetLatest(measurements)]))
       ELSE StepTo(p, "resolve", NoMessage)
    /\ UNCHANGED <<now, storeVars, firebase, dispatches, jobRegistered, due, last>>

\* _auto_resolve_alerts, whose handler of Exception logs, and the handler returns
AutoResolve(p, fault) ==
    /\ pc[p] = "resolve"
    /\ Awaited(dispatches) = {}
    /\ alerts' = IF fault = "none" THEN AutoResolveAlerts(measurements, alerts, now)
                 ELSE IF fault = "between" THEN AutoResolveAqi(measurements, alerts, now)
                 ELSE alerts
    /\ Finish(p, FALSE)
    /\ UNCHANGED <<now, measurements, tokens, firebase, dispatches, jobRegistered, due,
                   last>>

Next ==
    \/ Tick(MaxRaceTicks)
    \/ Start
    \/ TimerElapses
    \/ \E local \in LocalClocks : TriggerFetchNow(local)
    \/ ProcessDue
    \/ Stop
    \/ \E p \in Cycles, result \in FetchResults :
          \E commitOk \in (IF result.ok THEN BOOLEAN ELSE {TRUE}) :
              FetchDone(p, result, commitOk)
    \/ \E aqi \in AqiValues, noise \in RaceNoiseValues : Upload(aqi, noise, 0)
    \/ \E p \in Procs : AqiCheck(p, FALSE)
    \/ \E p \in Procs : OpenAlert(p, "aqi_open", "high_aqi", "noise_check", FALSE)
    \/ \E p \in Procs : NoiseCheck(p, FALSE)
    \/ \E p \in Procs : OpenAlert(p, "noise_open", "high_noise", "resolve", FALSE)
    \/ \E p \in Procs : AutoResolve(p, "none")
    \/ \E type \in AlertTypes : CreateManualAlert(type, MaxRaceAlerts)
    \/ \E id \in 1..MaxRaceAlerts : ResolveAlert(id)

\* the notification threads started under Spec are followed under DispSpec: they
\* touch no alert, no measurement and nothing of the scheduler (DispatchAlerts)
\* started at 21:50, so that the clock advance enters the quiet hours
SpecInit == SeqInit /\ now = 21 * 60 + 50

Spec == SpecInit /\ [][Next]_vars

----------------------------------------------------------------------------
(* StatusSpec: get_status beside the scheduler, its cycles and the device   *)
(* registrations                                                            *)

\* BackgroundScheduler.running: the state is not STATE_STOPPED, which it is before
\* start() and after shutdown()
scheduler_running_started(st) == st # "init"
scheduler_running(st) == st \notin {"init", "stopped"}

\* PollutionScheduler.get_status: the jobs of get_jobs() and the running flag
get_status(st, job) ==
    [running |-> scheduler_running(st),
     jobs |-> IF job THEN {"fetch_aqi_data"} ELSE {}]

GetStatus ==
    /\ last' = [op |-> "status", pre |-> <<>>, pre0 |-> <<get_status(schedState, jobRegistered)>>]
    /\ UNCHANGED <<now, storeVars, firebase, dispatches, schedVars, pc, loc>>

StatusNext ==
    \/ Start
    \/ TimerElapses
    \/ ProcessDue
    \/ Stop
    \/ \E p \in Cycles, result \in FetchResults : FetchDone(p, result, TRUE)
    \/ \E p \in Cycles : AqiCheck(p, FALSE)
    \/ \E p \in Cycles : OpenAlert(p, "aqi_open", "high_aqi", "noise_check", FALSE)
    \/ \E p \in Cycles : NoiseCheck(p, FALSE)
    \/ \E p \in Cycles : AutoResolve(p, "none")
    \/ \E x \in Tokens : RegisterToken(x)
    \/ GetStatus

StatusSpec == SpecInit /\ [][StatusNext]_vars

----------------------------------------------------------------------------
(* LiveSpec: the scheduler and its cycles under fair scheduling: the timer   *)
(* fires again and again, the scheduler thread processes a due job, and a   *)
(* cycle that has started takes its steps (the fetch is bounded by its      *)
(* timeout of 30 seconds)                                                   *)

\* fetch_and_store_aqi once the table holds MaxRaceMeas rows: a reading at or below
\* the threshold that equals the most recent row is stood for by that row.  The
\* checks read the values of the rows of the window and the most recent row, never
\* their number, and with such a row in the window no message is built.
FetchDoneRepeat(p, result) ==
    /\ pc[p] = "fetch"
    /\ CycleStores(result)
    /\ Len(measurements) = MaxRaceMeas
    /\ result.aqi <= aqi_threshold
    /\ measurements[GetLatest(measurements)] =
          [ts |-> now, aqi |-> result.aqi, noise |-> NoNoise]
    /\ pc' = [pc EXCEPT ![p] = "aqi_check"]
    /\ loc' = [loc EXCEPT ![p].mid = GetLatest(measurements)]
    /\ UNCHANGED <<now, storeVars, firebase, dispatches, schedState, jobRegistered, due,
                   instances, listened, last>>

LiveFetch(p) ==
    \/ \E result \in FetchResults :
          \E commitOk \in (IF result.ok THEN BOOLEAN ELSE {TRUE}) :
              FetchDone(p, result, commitOk)
    \/ \E result \in FetchResults : FetchDoneRepeat(p, result)

LiveNext ==
    \/ Start
    \/ TimerElapses
    \/ ProcessDue
    \/ \E p \in Cycles : LiveFetch(p)
    \/ \E p \in Cycles : AqiCheck(p, FALSE)
    \/ \E p \in Cycles : OpenAlert(p, "aqi_open", "high_aqi", "noise_check", FALSE)
    \/ \E p \in Cycles : NoiseCheck(p, FALSE)
    \/ \E p \in Cycles : AutoResolve(p, "none")

LiveFairness ==
    /\ WF_vars(TimerElapses)
    /\ WF_vars(ProcessDue)
    /\ \A p \in Cycles :
          /\ WF_vars(LiveFetch(p))
          /\ WF_vars(AqiCheck(p, FALSE))
          /\ WF_vars(OpenAlert(p, "aqi_open", "high_aqi", "noise_check", FALSE))
          /\ WF_vars(NoiseCheck(p, FALSE))
          /\ WF_vars(AutoResolve(p, "none"))

LiveSpec == SpecInit /\ [][LiveNext]_vars /\ LiveFairness

----------------------------------------------------------------------------
(* ListSpec: GET /alerts beside uploads, manual alerts and resolutions, over  *)
(* more than a day.  Under ListSpec a row of alerts carries its timestamp     *)
(* column, which the time filter of the listing reads.                        *)

\* Alert.timestamp: default=datetime.utcnow at the insert
AlertRow(a, t) ==
    [alert_type |-> a.alert_type, message |-> a.message, status |-> a.status,
     resolved_at |-> a.resolved_at, timestamp |-> t]

\* the rows beyond the first n are the ones inserted at t
AlertRows(al, n, t) ==
    [i \in DOMAIN al |-> IF i <= n THEN al[i] ELSE AlertRow(al[i], t)]

\* Alert.get_active_alerts: filter_by(status='Active')
get_active_alerts(al) == {i \in DOMAIN al : al[i].status = "Active"}

\* Alert.get_recent_alerts: filter(timestamp >= utcnow() - timedelta(hours=hours))
get_recent_alerts(al, t, hours) ==
    {i \in DOMAIN al : al[i].timestamp >= t - hours * 60}

\* GET /alerts: the ids of the rows of the listing
get_alerts(al, t, include_resolved) ==
    IF include_resolved THEN get_recent_alerts(al, t, 24) ELSE get_active_alerts(al)

ListInit == InitAt({12 * 60})

ListTick ==
    /\ now < 12 * 60 + MaxListTicks * ListTickMinutes
    /\ now' = now + ListTickMinutes
    /\ last' = NoEvent
    /\ UNCHANGED <<storeVars, firebase, dispatches, schedVars, pc, loc>>

\* POST /upload: store the record, then check_all_alerts
ListUpload(aqi) ==
    /\ Len(measurements) < MaxListMeas
    /\ measurements' =
          StoreMeasurement(measurements, [ts |-> now, aqi |-> aqi, noise |-> NoNoise])
    /\ Len(AfterOpenChecks(measurements', alerts, now)) <= MaxListAlerts
    /\ alerts' = AlertRows(CheckAllAlerts(measurements', alerts, now), Len(alerts), now)
    /\ dispatches' =
          dispatches \o NewDispatches(alerts, AfterOpenChecks(measurements', alerts, now))
    /\ last' = NoEvent
    /\ UNCHANGED <<now, tokens, firebase, schedVars, pc, loc>>

\* AlertManager.create_manual_alert
ListCreateManualAlert(type) ==
    /\ Len(alerts) < MaxListAlerts
    /\ alerts' = CommitAlert(alerts, AlertRow(NewAlert(type, ManualMessage, now), now))
    /\ last' = NoEvent
    /\ UNCHANGED <<now, measurements, tokens, firebase, dispatches, schedVars, pc, loc>>

\* GET /alerts
GetAlerts(include_resolved) ==
    /\ last' = [op |-> "list", pre |-> <<include_resolved>>,
                pre0 |-> <<get_alerts(alerts, now, include_resolved)>>]
    /\ UNCHANGED <<now, storeVars, firebase, dispatches, schedVars, pc, loc>>

ListNext ==
    \/ ListTick
    \/ \E aqi \in AqiValues : ListUpload(aqi)
    \/ \E type \in AlertTypes : ListCreateManualAlert(type)
    \/ \E id \in 1..MaxListAlerts : ResolveAlert(id)
    \/ \E include_resolved \in BOOLEAN : GetAlerts(include_resolved)

ListSpec == ListInit /\ [][ListNext]_vars

----------------------------------------------------------------------------
(* ResolveSpec: resolve_alert with its return value, on known and unknown    *)
(* ids, beside uploads with their evaluation pass and manual alerts           *)

\* AlertManager.resolve_alert: "if alert: alert.resolve(); return True", else False
resolve_alert_returns_active(al, id) == id \in DOMAIN al /\ al[id].status = "Active"
resolve_alert_returns(al, id) == id \in DOMAIN al

ResolveAlertReturns(id) ==
    /\ Serving
    /\ alerts' = IF resolve_alert_returns(alerts, id)
                 THEN ResolveAll(alerts, {id}, now) ELSE alerts
    /\ last' = [op |-> "resolve", pre |-> alerts,
                pre0 |-> <<id, resolve_alert_returns(alerts, id)>>]
    /\ UNCHANGED <<now, measurements, tokens, firebase, dispatches, schedVars, pc, loc>>

ResolveInit == InitAt(StartTimes)

ResolveNext ==
    \/ Tick(MaxTicks)
    \/ \E aqi \in AqiValues, noise \in NoiseValues : SeqUpload(aqi, noise, 0)
    \/ \E type \in AlertTypes : CreateManualAlert(type, MaxAlerts)
    \/ \E id \in 1..(MaxAlerts + 1) : ResolveAlertReturns(id)

ResolveSpec == ResolveInit /\ [][ResolveNext]_vars

----------------------------------------------------------------------------
(* FaultSpec: the scheduler and its cycles when any statement of the pipeline  *)
(* may raise: the fetch, the commit of the measurement, the statements of the *)
(* rules, and the notification threads                                        *)

FaultOffsets == {0, -20}     \* client timestamp relative to now

\* started just before or inside the quiet hours
FaultInit == InitAt({21 * 60 + 50, 22 * 60})

FaultNext ==
    \/ Start
    \/ TimerElapses
    \/ ProcessDue
    \/ \E p \in Cycles, result \in FetchResults :
          \E commitOk \in (IF result.ok THEN BOOLEAN ELSE {TRUE}) :
              FetchDone(p, result, commitOk)
    \/ \E aqi \in AqiValues, noise \in RaceNoiseValues, off \in FaultOffsets :
          Upload(aqi, noise, off)
    \/ \E p \in Procs, raised \in BOOLEAN : AqiCheck(p, raised)
    \/ \E p \in Procs, raised \in BOOLEAN :
          OpenAlert(p, "aqi_open", "high_aqi", "noise_check", raised)
    \/ \E p \in Procs, raised \in BOOLEAN : NoiseCheck(p, raised)
    \/ \E p \in Procs, raised \in BOOLEAN :
          OpenAlert(p, "noise_open", "high_noise", "resolve", raised)
    \/ \E p \in Procs, fault \in ResolveFaults : AutoResolve(p, fault)
    \/ \E d \in 1..MaxRaceAlerts :
          \E outcome \in {o \in DispatchOutcomes : o.kind = "read_error"} :
              RunDispatch(d, outcome)

FaultSpec == FaultInit /\ [][FaultNext]_vars

----------------------------------------------------------------------------
(* DispSpec: the notification threads beside the handlers of the request layer *)

MaxDispMeas == 2   \* rows of pollution_data under DispSpec

DispUpload(aqi, noise) ==
    /\ Len(measurements) < MaxDispMeas
    /\ SeqUpload(aqi, noise, 0)

DispNext ==
    \/ \E aqi \in AqiValues, noise \in RaceNoiseValues : DispUpload(aqi, noise)
    \/ \E id \in 1..MaxAlerts : ResolveAlert(id)
    \/ \E x \in Tokens : RegisterToken(x)
    \/ \E x \in Tokens : DeactivateToken(x)
    \/ \E d \in 1..MaxAlerts : \E outcome \in DispatchOutcomes : RunDispatch(d, outcome)

DispSpec == Init /\ [][DispNext]_vars

----------------------------------------------------------------------------
(* TokenSpec: registration and unregistration of endpoints beside the        *)
(* notification threads, whose read of the endpoints and whose sending loop  *)
(* are two steps that other requests may come between                        *)

\* DeviceToken.deactivate_token: True when a row with the token exists
deactivate_token_returns(tok, x) == FirstRow(tok, x) # 0

\* POST /unregister-device: DeviceToken.deactivate_token and its value
DeactivateTokenReturns(x) ==
    /\ tokens' = deactivate_token(tokens, x)
    /\ last' = [op |-> "deactivate", pre |-> tokens,
                pre0 |-> <<x, deactivate_token_returns(tokens, x)>>]
    /\ UNCHANGED <<now, measurements, alerts, firebase, dispatches, schedVars, pc, loc>>

\* _send_push_notification up to token_strings: "if not messaging", then
\* DeviceToken.get_active_tokens(), which may raise
DispatchRead(d, readOk) ==
    /\ d \in DOMAIN dispatches
    /\ dispatches[d].st = "pending"
    /\ dispatches' = [dispatches EXCEPT ![d] =
          IF ~firebase THEN [@ EXCEPT !.st = "not_init"]
          ELSE IF ~readOk THEN [@ EXCEPT !.st = "read_error"]
          ELSE [@ EXCEPT !.st = "sending", !.snap = ActiveTokens(tokens)]]
    /\ last' = NoEvent
    /\ UNCHANGED <<now, storeVars, firebase, schedVars, pc, loc>>

\* the rows whose token strings the thread holds in token_strings
SnapRows(tok, snap) ==
    LET InSnap(r) == r.token \in snap IN SelectSeq(tok, InSnap)

\* _send_push_notification: the loop over token_strings
DispatchSend(d, res) ==
    /\ d \in DOMAIN dispatches
    /\ dispatches[d].st = "sending"
    /\ \A x \in Tokens : res[x] = "none" <=> x \notin dispatches[d].snap
    /\ LET run == SendLoop(SnapRows(tokens, dispatches[d].snap), res,
                           [att |-> NoAttempts, ok |-> 0, fail |-> 0, tok |-> tokens])
       IN  /\ dispatches' = [dispatches EXCEPT ![d] =
                                 [@ EXCEPT !.st = "sent", !.res = res, !.att = run.att,
                                           !.ok = run.ok, !.fail = run.fail]]
           /\ tokens' = run.tok
    /\ last' = NoEvent
    /\ UNCHANGED <<now, measurements, alerts, firebase, schedVars, pc, loc>>

TokenInit == InitAt({22 * 60})

TokenNext ==
    \/ \E aqi \in AqiValues, noise \in RaceNoiseValues : DispUpload(aqi, noise)
    \/ \E x \in Tokens : RegisterToken(x)
    \/ \E x \in Tokens : DeactivateTokenReturns(x)
    \/ \E d \in 1..MaxAlerts, readOk \in BOOLEAN : DispatchRead(d, readOk)
    \/ \E d \in 1..MaxAlerts :
          \E res \in [Tokens -> {"none", "ok", "transient", "permanent"}] :
              DispatchSend(d, res)

TokenSpec == TokenInit /\ [][TokenNext]_vars

----------------------------------------------------------------------------
(* HourSpec: uploads, manual alerts and manual resolution at any hour of the day *)

Hours == 0..23

HourInit == InitAt({h * 60 : h \in Hours})

HourNext ==
    \/ \E aqi \in AqiValues, noise \in NoiseValues : SeqUpload(aqi, noise, 0)
    \/ \E type \in AlertTypes : CreateManualAlert(type, MaxAlerts)
    \/ \E id \in 1..MaxAlerts : ResolveAlert(id)

HourSpec == HourInit /\ [][HourNext]_vars

----------------------------------------------------------------------------
(* QuietSpec: the quiet-hours test of an AlertManager built from any          *)
(* configuration of NOISE_QUIET_HOURS_START and NOISE_QUIET_HOURS_END, at any *)
(* hour of the day                                                          *)

QuietInit == InitAt({h * 60 : h \in Hours})

\* AlertManager(config).check_noise_alert up to "if not is_quiet_hours"
QuietHoursTest(start, end) ==
    /\ last' = [op |-> "quiet", pre |-> <<start, end, Hour(now)>>,
                pre0 |-> <<is_quiet_hours(Hour(now), start, end)>>]
    /\ UNCHANGED <<now, storeVars, firebase, dispatches, schedVars, pc, loc>>

QuietNext == \E start \in Hours, end \in Hours : QuietHoursTest(start, end)

QuietSpec == QuietInit /\ [][QuietNext]_vars

----------------------------------------------------------------------------
(* MsgSpec: uploads with client timestamps inside the window, at noon, and  *)
(* manual resolution: the text of the high_aqi alert                        *)

MaxMsgMeas == 3                       \* rows of pollution_data under MsgSpec
MsgAqiValues == {151, 152, 160, 170, 180}
MsgOffsets == {-14, -9, -4}           \* client timestamp relative to now

MsgInit == InitAt({12 * 60})

MsgNext ==
    \/ \E aqi \in MsgAqiValues, off \in MsgOffsets : UploadPass(aqi, NoNoise, off, MaxMsgMeas)
    \/ \E id \in 1..MaxAlerts : ResolveAlert(id)

MsgSpec == MsgInit /\ [][MsgNext]_vars

----------------------------------------------------------------------------
(* Properties of one evaluation pass (SeqSpec) *)

IsPass == last.op \in {"eval", "again"}

\* ids of the records the last pass created
Created == (Len(last.pre) + 1)..Len(alerts)
CreatedOfType(type) == {i \in Created : alerts[i].alert_type = type}

\* the trailing window and the most recent measurement, as the rules are specified
Window == {i \in DOMAIN measurements : measurements[i].ts >= now - aqi_duration_minutes}
WindowAllAbove == Window # {} /\ \A i \in Window : measurements[i].aqi > aqi_threshold
MostRecent == measurements[GetLatest(measurements)]
QuietNow == Hour(now) >= quiet_hours_start \/ Hour(now) < quiet_hours_end
WasActive(pre, type) ==
    {i \in DOMAIN pre : pre[i].alert_type = type /\ pre[i].status = "Active"}
OfType(pre, type) == {i \in DOMAIN pre : pre[i].alert_type = type}

\* C4: with a non-empty window that is entirely above the threshold and no Active
\* high_aqi record, a pass creates exactly one high_aqi record, and the pass run
\* again at once on the same measurements creates no record at all.
C4_OpenOnceThenIdempotent ==
    /\ (IsPass /\ WindowAllAbove /\ WasActive(last.pre, "high_aqi") = {})
          => Cardinality(CreatedOfType("high_aqi")) = 1
    /\ (last.op = "again" /\ WindowAllAbove /\ WasActive(last.pre0, "high_aqi") = {})
          => Created = {}

C4_Witness ==
    /\ last.op = "again"
    /\ WindowAllAbove
    /\ WasActive(last.pre0, "high_aqi") = {}
    /\ Len(last.pre) = Len(last.pre0) + 1

\* C5: a pass opens a high_aqi alert exactly when the window is non-empty, every
\* measurement in it is strictly above the threshold and no high_aqi record is Active.
C5_AqiOpensIff ==
    IsPass =>
        /\ CreatedOfType("high_aqi") # {}
              <=> (WindowAllAbove /\ WasActive(last.pre, "high_aqi") = {})
        /\ Cardinality(CreatedOfType("high_aqi")) <= 1
        /\ \A i \in CreatedOfType("high_aqi") :
              alerts[i].status = "Active" /\ alerts[i].resolved_at = NoTime

C5_Witness ==
    /\ IsPass
    /\ CreatedOfType("high_aqi") # {}
    /\ Cardinality(Window) = 2

\* a pass over a single measurement equal to the threshold, and one over an empty window
C5_WitnessBoundary ==
    /\ IsPass
    /\ Window # {}
    /\ \A i \in Window : measurements[i].aqi = aqi_threshold
    /\ WasActive(last.pre, "high_aqi") = {}
    /\ CreatedOfType("high_aqi") = {}

\* C6: a pass whose most recent measurement is at or below the threshold leaves every
\* high_aqi record that was Active Resolved with resolved_at set; a pass whose most
\* recent measurement is above the threshold changes no high_aqi record.
C6_AqiAutoResolve ==
    IsPass =>
        /\ measurements # <<>>
        /\ MostRecent.aqi <= aqi_threshold =>
              \A i \in WasActive(last.pre, "high_aqi") :
                  alerts[i].status = "Resolved" /\ alerts[i].resolved_at = now
        /\ MostRecent.aqi > aqi_threshold =>
              \A i \in OfType(last.pre, "high_aqi") : alerts[i] = last.pre[i]

C6_Witness ==
    /\ IsPass
    /\ MostRecent.aqi <= aqi_threshold
    /\ Cardinality(WasActive(last.pre, "high_aqi")) = 2
    /\ \A i \in WasActive(last.pre, "high_aqi") : alerts[i].status = "Resolved"

\* C7: a pass opens a high_noise alert exactly when the hour is quiet, the most recent
\* measurement has a noise value strictly above the threshold and no high_noise
\* record is Active.
C7_NoiseOpensIff ==
    IsPass =>
        /\ CreatedOfType("high_noise") # {}
              <=> /\ QuietNow
                  /\ MostRecent.noise # NoNoise
                  /\ MostRecent.noise > noise_threshold
                  /\ WasActive(last.pre, "high_noise") = {}
        /\ Cardinality(CreatedOfType("high_noise")) <= 1

C7_Witness ==
    /\ IsPass
    /\ CreatedOfType("high_noise") # {}
    /\ GetLatest(measurements) # Len(measurements)

\* C8: a pass resolves every Active high_noise record when the most recent noise is
\* present and at or below the threshold or the hour is not quiet, and otherwise
\* changes no high_noise record.
NoiseBackToNormal ==
    \/ MostRecent.noise # NoNoise /\ MostRecent.noise <= noise_threshold
    \/ ~QuietNow

C8_NoiseAutoResolve ==
    IsPass =>
        /\ NoiseBackToNormal =>
              \A i \in WasActive(last.pre, "high_noise") :
                  alerts[i].status = "Resolved" /\ alerts[i].resolved_at = now
        /\ ~NoiseBackToNormal =>
              \A i \in OfType(last.pre, "high_noise") : alerts[i] = last.pre[i]

C8_Witness ==
    /\ IsPass
    /\ ~QuietNow
    /\ MostRecent.noise > noise_threshold
    /\ WasActive(last.pre, "high_noise") # {}
    /\ \A i \in WasActive(last.pre, "high_noise") : alerts[i].status = "Resolved"

\* during quiet hours, noise absent: the Active record stays Active
C8_WitnessStays ==
    /\ IsPass
    /\ QuietNow
    /\ MostRecent.noise = NoNoise
    /\ \E i \in WasActive(last.pre, "high_noise") : alerts[i].status = "Active"

----------------------------------------------------------------------------
(* Properties of the interleaved process (Spec) *)

\* C1: for each alert type at most one record is Active.
C1_AtMostOneActivePerType ==
    \A type \in AlertTypes : Cardinality(ActiveIds(alerts, type)) <= 1

\* C2: at most one execution of fetch_and_store_aqi is in progress.
InFlight == {p \in Cycles : pc[p] # "idle"}

C2_SingleInFlight == Cardinality(InFlight) <= 1

\* C3: the alert-store steps of two evaluation passes never interleave, so two
\* passes never both find no Active record of a type and both create one.
InStoreSteps == {p \in Procs : pc[p] \in PassPcs \ {"aqi_check"}}
RuleCreated == {dispatches[d].alert : d \in DOMAIN dispatches}

PassesSerialized == Cardinality(InStoreSteps) <= 1

\* C3, as its conclusion: no two Active records of one type were both created by
\* the open checks (each of which creates only after it found no Active record).
C3_NoDoubleCreate ==
    \A type \in AlertTypes :
        Cardinality(ActiveIds(alerts, type) \cap RuleCreated) <= 1

\* C9: while a handler evaluates, the measurement it stored is in the table, and
\* every notification thread that was started announces a committed alert record.
C9_PersistBeforeEvaluateBeforeNotify ==
    /\ \A p \in Procs :
          pc[p] \in PassPcs =>
              /\ loc[p].mid \in DOMAIN measurements
              /\ p \in Cycles => measurements[loc[p].mid].noise = NoNoise
    /\ \A d \in DOMAIN dispatches :
          /\ dispatches[d].alert \in DOMAIN alerts
          /\ \A e \in DOMAIN dispatches : dispatches[e].alert = dispatches[d].alert => e = d

C9_Witness ==
    /\ pc["job1"] = "resolve"
    /\ \E d \in DOMAIN dispatches :
          /\ dispatches[d].st = "pending"
          /\ alerts[dispatches[d].alert].status = "Active"

----------------------------------------------------------------------------
(* Properties of the notification threads (DispSpec) *)

\* C10: the step in which a notification thread ends, whatever its outcome, leaves
\* every alert record as it was, and the record the thread announces is in the
\* table: Active if it was Active when the step began.
DispatchEnds(d) ==
    /\ d \in DOMAIN dispatches
    /\ dispatches[d].st = "pending"
    /\ dispatches'[d].st # "pending"

C10_DispatchKeepsAlerts ==
    [][\A d \in 1..MaxAlerts :
          DispatchEnds(d) =>
              /\ alerts' = alerts
              /\ dispatches[d].alert \in DOMAIN alerts'
              /\ alerts[dispatches[d].alert].status = "Active"
                    => alerts'[dispatches[d].alert].status = "Active"]_vars

\* a thread that found the sink uninitialised, one whose read of the endpoints
\* failed and one whose every delivery failed have ended; the alerts are Active
C10_Witness ==
    /\ firebase
    /\ \E d, e \in DOMAIN dispatches :
          /\ dispatches[d].st = "read_error"
          /\ dispatches[e].st = "sent"
          /\ alerts[dispatches[d].alert].status = "Active"
          /\ alerts[dispatches[e].alert].status = "Active"
          /\ tokens # <<>>
          /\ ActiveTokens(tokens) = {}

\* C11: a dispatch that found the sink initialised has made exactly one delivery
\* attempt to each endpoint that was active when it started, and its success count
\* plus its failure count is the number of those endpoints.
Ended == {d \in DOMAIN dispatches : dispatches[d].st \in {"read_error", "sent"}}

C11_EachEndpointAttemptedOnce ==
    \A d \in Ended :
        /\ \A x \in dispatches[d].snap : dispatches[d].att[x] = 1
        /\ dispatches[d].ok + dispatches[d].fail = Cardinality(dispatches[d].snap)

\* the same for the dispatches whose read of the endpoints returned: every attempt
\* is made and counted whatever the other attempts did
C11_LoopIsolatesFailures ==
    \A d \in DOMAIN dispatches :
        dispatches[d].st = "sent" =>
            /\ \A x \in Tokens :
                  dispatches[d].att[x] = (IF x \in dispatches[d].snap THEN 1 ELSE 0)
            /\ dispatches[d].ok + dispatches[d].fail = Cardinality(dispatches[d].snap)
            /\ dispatches[d].ok =
                  Cardinality({x \in dispatches[d].snap : dispatches[d].res[x] = "ok"})

\* C12: the step in which a dispatch ends deactivates exactly the endpoints whose
\* delivery failed with a permanent-invalid cause; an endpoint whose delivery
\* succeeded or failed otherwise is still active, and no endpoint was sent to twice.
C12_DeactivatesIffPermanent ==
    [][\A d \in 1..MaxAlerts :
          DispatchEnds(d) =>
              \A x \in Tokens :
                  /\ (x \in ActiveTokens(tokens) /\ x \notin ActiveTokens(tokens'))
                        <=> dispatches'[d].res[x] = "permanent"
                  /\ dispatches'[d].res[x] \in {"ok", "transient"}
                        => x \in ActiveTokens(tokens')
                  /\ dispatches'[d].att[x] <= 1
                  /\ x \notin ActiveTokens(tokens) => x \notin ActiveTokens(tokens')]_vars

\* two endpoints, the first one sent to permanently invalid: that one is deactivated,
\* the other, whose delivery failed otherwise, remains active; the counts sum to 2
C12_Witness ==
    \E d \in DOMAIN dispatches :
        /\ dispatches[d].st = "sent"
        /\ dispatches[d].snap = Tokens
        /\ dispatches[d].res[tokens[1].token] = "permanent"
        /\ dispatches[d].res[tokens[2].token] = "transient"
        /\ ActiveTokens(tokens) = {tokens[2].token}
        /\ dispatches[d].ok = 0
        /\ dispatches[d].fail = 2

\* both endpoints delivered to: both remain active
C12_WitnessDelivered ==
    \E d \in DOMAIN dispatches :
        /\ dispatches[d].st = "sent"
        /\ dispatches[d].snap = Tokens
        /\ dispatches[d].ok = 2
        /\ ActiveTokens(tokens) = Tokens

\* C20: the table holds at most one record per token, and when register_token has
\* returned the record of its token exists and is active, whether the token was
\* new, active or deactivated before.
C20_RegisterIdempotent ==
    /\ \A x \in Tokens : Cardinality(TokenRows(tokens, x)) <= 1
    /\ last.op = "register" =>
          /\ last.pre0[1] \in ActiveTokens(tokens)
          /\ \A x \in Tokens : x # last.pre0[1] =>
                (x \in ActiveTokens(tokens) <=> x \in ActiveTokens(last.pre))
          /\ Len(tokens) = Len(last.pre) + (IF TokenRows(last.pre, last.pre0[1]) = {} THEN 1 ELSE 0)

\* a token a dispatch deactivated is registered again
C20_Witness ==
    /\ last.op = "register"
    /\ TokenRows(last.pre, last.pre0[1]) # {}
    /\ last.pre0[1] \notin ActiveTokens(last.pre)
    /\ \E d \in DOMAIN dispatches : dispatches[d].res[last.pre0[1]] = "permanent"

\* a token that is active is registered again
C20_WitnessActive ==
    /\ last.op = "register"
    /\ last.pre0[1] \in ActiveTokens(last.pre)
    /\ tokens = last.pre

----------------------------------------------------------------------------
(* Properties of the fetch cycle and of the scheduler *)

\* C13: a fetch cycle whose fetch failed (timeout, transport error, upstream status
\* not ok, no aqi value) leaves the measurements, the alert records and the
\* notification threads as they were: nothing is appended, no rule has run.
C13_FetchFailureSkipsCycle ==
    last.op \in FetchFailures =>
        /\ measurements = last.pre0[1]
        /\ alerts = last.pre
        /\ dispatches = last.pre0[2]

\* no aqi value, where a pass would have resolved the Active high_aqi record
C13_Witness ==
    /\ last.op = "no_aqi"
    /\ ActiveIds(alerts, "high_aqi") # {}
    /\ AqiShouldResolve(measurements)

\* a timeout, where a pass would have opened a high_aqi alert
C13_WitnessWouldOpen ==
    /\ last.op = "timeout"
    /\ AqiShouldOpen(measurements, alerts, now)

\* C14: the step of a scheduled cycle whose commit of the measurement fails stores
\* nothing, runs no rule, and the job listener receives the failed execution.
C14_PersistFailureSurfaces ==
    [][\A p \in {"job1", "job2"}, result \in FetchResults :
          (Serving /\ result.ok /\ FetchDone(p, result, FALSE)) =>
              /\ measurements' = measurements
              /\ alerts' = alerts
              /\ dispatches' = dispatches
              /\ pc'[p] = "idle"
              /\ listened' = "error"]_vars

\* the part of C14 that the code keeps: the cycle ends there, nothing stored or run
C14_PersistFailureAborts ==
    [][\A p \in Cycles, result \in FetchResults :
          (result.ok /\ FetchDone(p, result, FALSE)) =>
              /\ measurements' = measurements
              /\ alerts' = alerts
              /\ dispatches' = dispatches
              /\ pc'[p] = "idle"]_vars

\* C15: a firing that is processed while a fetch cycle is in flight starts no cycle.
C15_OverlappingFiringDropped ==
    [][(ProcessDue /\ InFlight # {}) => pc' = pc]_vars

\* the part of C15 that the code keeps: a firing processed while an instance of the
\* job runs in the executor is dropped, and the job is no longer due
C15_DroppedWhileJobRuns ==
    [][(ProcessDue /\ instances >= max_instances) => (pc' = pc /\ ~due')]_vars

\* C16: trigger_fetch_now with no job registered changes nothing; with a job
\* registered it leaves the job due for an immediate run.
C16_TriggerRequestsRun ==
    [][\A local \in LocalClocks :
          TriggerFetchNow(local) =>
              IF jobRegistered THEN due' /\ pc' = pc /\ instances' = instances
              ELSE UNCHANGED vars]_vars

\* C17: stop() leaves every cycle in flight where it is and cancels the firings;
\* once the scheduler is stopped no context that is idle starts a cycle.
C17_StopKeepsInFlight ==
    [][/\ schedState = "stopped" =>
             \A p \in Cycles : pc[p] = "idle" => pc'[p] = "idle"
       /\ (schedState = "running" /\ schedState' = "stopped") =>
             /\ pc' = pc
             /\ loc' = loc
             /\ UNCHANGED storeVars
             /\ ~due'
             /\ ~jobRegistered']_vars

\* the scheduler is stopped and a scheduled cycle, its measurement stored, is in
\* the last step of its evaluation
C17_Witness ==
    /\ schedState = "stopped"
    /\ pc["job1"] = "resolve"
    /\ loc["job1"].mid \in DOMAIN measurements
    /\ \E d \in DOMAIN dispatches : dispatches[d].alert \in DOMAIN alerts

\* C18: while the warm-start cycle of start() has not completed, no scheduled
\* firing and no manual trigger has a cycle running.
C18_WarmStartBeforeSchedule ==
    pc["warm"] # "idle" => \A p \in {"job1", "job2"} : pc[p] = "idle"

\* C19: no step changes a record that is Resolved: neither its status nor its
\* resolved_at.
C19_ResolveResolvedIsNoOp ==
    [][\A i \in DOMAIN alerts :
          alerts[i].status = "Resolved" => alerts'[i] = alerts[i]]_vars

\* the part of C19 that the code keeps: a Resolved record stays Resolved, and the
\* auto-resolve of a pass leaves it as it was
C19_PassKeepsResolved ==
    IsPass => \A i \in DOMAIN last.pre :
                 last.pre[i].status = "Resolved" => alerts[i] = last.pre[i]

----------------------------------------------------------------------------
(* Properties of the alert history and of the rules of one pass *)

\* C21: no step removes an alert record or changes its type, a record that is
\* Resolved never becomes Active again, and in every state resolved_at is set
\* exactly for the records whose status is Resolved.
StampedIffResolved ==
    \A i \in DOMAIN alerts :
        /\ alerts[i].status \in {"Active", "Resolved"}
        /\ alerts[i].resolved_at # NoTime <=> alerts[i].status = "Resolved"

C21_AlertHistoryMonotone ==
    /\ []StampedIffResolved
    /\ [][/\ Len(alerts') >= Len(alerts)
          /\ \A i \in DOMAIN alerts :
                /\ alerts'[i].alert_type = alerts[i].alert_type
                /\ alerts'[i].message = alerts[i].message
                /\ alerts[i].status = "Resolved" => alerts'[i].status = "Resolved"]_vars

\* a record a rule opened is Resolved and stamped, a second one is Active
C21_Witness ==
    /\ Len(alerts) = 2
    /\ alerts[1].status = "Resolved"
    /\ alerts[1].resolved_at # NoTime
    /\ alerts[2].status = "Active"
    /\ alerts[2].resolved_at = NoTime
    /\ \E d \in DOMAIN dispatches : dispatches[d].alert = 1
    /\ \E p \in Procs : pc[p] = "resolve"

\* C22: with quiet hours from 22 to 6, at every hour h of the day the noise open
\* rule of a pass takes the hour for quiet exactly when h >= 22 or h < 6, and so
\* does the noise auto-resolve rule of that pass: a loud most recent measurement
\* opens an alert exactly in those hours, and an Active high_noise record stays
\* Active over a loud or noiseless measurement exactly in those hours.
C22_QuietHoursMembership ==
    LET h == Hour(now)
        quiet == h >= 22 \/ h < 6
    IN  /\ h \in Hours
        /\ IsQuietHours(h) <=> quiet
        /\ IsQuietHoursResolve(h) <=> quiet
        /\ IsPass =>
              /\ (MostRecent.noise > noise_threshold
                     /\ WasActive(last.pre, "high_noise") = {})
                    => (CreatedOfType("high_noise") # {} <=> quiet)
              /\ (MostRecent.noise = NoNoise \/ MostRecent.noise > noise_threshold)
                    => \A i \in WasActive(last.pre, "high_noise") :
                          alerts[i].status = "Active" <=> quiet
              /\ h \in {6, 10, 21} => CreatedOfType("high_noise") = {}

\* at hour 23 a loud measurement opens a high_noise alert
C22_Witness ==
    /\ Hour(now) = 23
    /\ IsPass
    /\ MostRecent.noise > noise_threshold
    /\ CreatedOfType("high_noise") # {}

\* at hour 6 a loud measurement opens nothing and the Active record is resolved
C22_WitnessHourSix ==
    /\ Hour(now) = 6
    /\ IsPass
    /\ MostRecent.noise > noise_threshold
    /\ CreatedOfType("high_noise") = {}
    /\ \E i \in WasActive(last.pre, "high_noise") : alerts[i].status = "Resolved"

\* at hour 5 the Active record stays Active over a measurement without noise
C22_WitnessHourFive ==
    /\ Hour(now) = 5
    /\ IsPass
    /\ MostRecent.noise = NoNoise
    /\ \E i \in WasActive(last.pre, "high_noise") : alerts[i].status = "Active"

\* C23: the step of an evaluation pass starts one notification thread for every
\* transition it makes: one for each record it opens and one for each record it
\* resolves.
PassStep == last'.op \in {"eval", "again"}
OpenedInStep == (Len(alerts) + 1)..Len(alerts')
ResolvedInStep ==
    {i \in DOMAIN alerts : alerts[i].status = "Active" /\ alerts'[i].status = "Resolved"}

C23_EveryTransitionDispatched ==
    [][PassStep =>
          Len(dispatches') - Len(dispatches)
              = Cardinality(OpenedInStep) + Cardinality(ResolvedInStep)]_vars

\* the part of C23 that the code keeps: one thread for every record the pass opens,
\* announcing that record
C23_EveryOpenDispatched ==
    [][PassStep =>
          /\ Len(dispatches') - Len(dispatches) = Cardinality(OpenedInStep)
          /\ \A i \in OpenedInStep :
                \E d \in (Len(dispatches) + 1)..Len(dispatches') :
                    dispatches'[d].alert = i]_vars

\* C24: while notification threads are pending, a pass that has just opened an
\* alert can take its next step and return, a registered job whose interval has
\* not elapsed can become due, and a due job with no instance running is started.
Pending == {d \in DOMAIN dispatches : dispatches[d].st = "pending"}

C24_DispatchNeverBlocks ==
    Pending # {} =>
        /\ \A p \in Procs :
              /\ pc[p] = "noise_check" => ENABLED NoiseCheck(p, FALSE)
              /\ pc[p] = "resolve" => ENABLED AutoResolve(p, "none")
        /\ (schedState = "running" /\ jobRegistered /\ ~due) => ENABLED TimerElapses
        /\ (schedState = "running" /\ jobRegistered /\ due /\ instances = 0)
              => ENABLED (ProcessDue /\ pc'["job1"] = "fetch")

\* the pass that opened a high_aqi alert has returned with its thread still
\* pending, a scheduled cycle has completed, and a later firing has started a cycle
C24_Witness ==
    /\ Pending # {}
    /\ listened = "executed"
    /\ pc["job1"] = "fetch"
    /\ pc["req"] = "idle"
    /\ pc["warm"] = "idle"
    /\ \A i \in DOMAIN measurements : measurements[i].noise = NoNoise
    /\ \A i \in DOMAIN alerts : alerts[i].alert_type = "high_aqi"

----------------------------------------------------------------------------
(* Properties of the pipeline when statements raise (FaultSpec) *)

\* C25: whatever raised in a cycle (the fetch, the commit of the measurement, a
\* statement of the rules) or in a notification thread, the scheduler stays
\* running with its job registered: the step in which a cycle ends hands back its
\* instance and changes nothing of the schedule, the step in which a thread ends
\* changes nothing of the scheduler and of the cycles, the interval can elapse
\* again and a due job with no instance running is started.
CycleEnds(p) == pc[p] # "idle" /\ pc'[p] = "idle"

C25_ErrorsNeverStopScheduler ==
    /\ [](schedState \in {"init", "running"})
    /\ []((schedState = "running") =>
             /\ jobRegistered
             /\ ~due => ENABLED TimerElapses
             /\ (due /\ instances = 0) => ENABLED (ProcessDue /\ pc'["job1"] = "fetch"))
    /\ [][\A p \in Cycles :
             CycleEnds(p) =>
                 /\ schedState' = "running"
                 /\ jobRegistered'
                 /\ due' = due
                 /\ p # "warm" => instances' = instances - 1]_vars
    /\ [][\A d \in 1..MaxRaceAlerts :
             DispatchEnds(d) => UNCHANGED <<schedVars, pc, loc>>]_vars

\* every cycle before it ended without a stored measurement (its fetch or its
\* commit failed); the cycle of a later firing has fetched, stored and evaluated
C25_Witness ==
    /\ schedState = "running"
    /\ listened = "executed"
    /\ pc["warm"] = "idle"
    /\ Len(measurements) = 1
    /\ loc["job1"].mid = 1
    /\ pc["job1"] = "resolve"

\* a cycle stored a measurement above the threshold and opened nothing, its open
\* check having raised; a later firing has started a cycle
C25_WitnessEvaluation ==
    /\ schedState = "running"
    /\ listened = "executed"
    /\ Len(measurements) = 1
    /\ AqiShouldOpen(measurements, alerts, now)
    /\ alerts = <<>>
    /\ pc = [p \in Procs |-> IF p = "job1" THEN "fetch" ELSE "idle"]

\* a notification thread ended on an error; a later cycle is evaluating
C25_WitnessDispatch ==
    /\ schedState = "running"
    /\ \E d \in DOMAIN dispatches : dispatches[d].st = "read_error"
    /\ listened = "executed"
    /\ pc["job1"] = "resolve"

----------------------------------------------------------------------------
(* Properties of the alert text (MsgSpec) *)

\* C26: the message of a high_aqi alert a pass opens names the threshold and the
\* window duration, and the average it prints is an integer nearest to the mean of
\* the aqi values of all measurements in the window; over the window values 160,
\* 170 and 180 it prints 170.
RECURSIVE WindowTotalUpTo(_)
WindowTotalUpTo(k) ==
    IF k = 0 THEN 0
    ELSE WindowTotalUpTo(k - 1) + (IF k \in Window THEN measurements[k].aqi ELSE 0)

WindowTotal == WindowTotalUpTo(Len(measurements))
Distance(a, b) == IF a >= b THEN a - b ELSE b - a

C26_MessageReportsMean ==
    IsPass =>
        \A i \in CreatedOfType("high_aqi") :
            /\ alerts[i].message.about = "high_aqi"
            /\ alerts[i].message.threshold = 150
            /\ alerts[i].message.minutes = 15
            /\ 2 * Distance(alerts[i].message.value * Cardinality(Window), WindowTotal)
                  <= Cardinality(Window)
            /\ (Cardinality(Window) = 3
                   /\ {measurements[k].aqi : k \in Window} = {160, 170, 180})
                  => alerts[i].message.value = 170

\* measurements 14, 9 and 4 minutes old with 160, 170 and 180: the alert opened
\* over them prints 170
C26_Witness ==
    /\ IsPass
    /\ measurements = <<[ts |-> now - 14, aqi |-> 160, noise |-> NoNoise],
                        [ts |-> now - 9, aqi |-> 170, noise |-> NoNoise],
                        [ts |-> now - 4, aqi |-> 180, noise |-> NoNoise]>>
    /\ \E i \in CreatedOfType("high_aqi") : alerts[i].message.value = 170

\* a mean of 151 and two thirds is printed as 152
C26_WitnessRoundsUp ==
    /\ IsPass
    /\ Cardinality(Window) = 3
    /\ WindowTotal = 455
    /\ \E i \in CreatedOfType("high_aqi") : alerts[i].message.value = 152

----------------------------------------------------------------------------
(* Properties of get_status (StatusSpec) *)

\* C27: the step of get_status leaves the scheduler state, the registered job and
\* whether it is due, the running instances, the measurements, the alert records,
\* the endpoints and every cycle in flight as they were, and the running flag it
\* reports is true exactly when the scheduler is running.
StatusStep == last'.op = "status" /\ last' # last

C27_GetStatusReadOnly ==
    [][StatusStep =>
          /\ UNCHANGED <<schedState, jobRegistered, due, instances, listened>>
          /\ UNCHANGED <<measurements, alerts, tokens, dispatches>>
          /\ UNCHANGED <<pc, loc>>
          /\ last'.pre0[1].running <=> schedState = "running"
          /\ last'.pre0[1].jobs # {} <=> jobRegistered]_vars

\* get_status called after stop() while a scheduled cycle is in its evaluation
C27_Witness ==
    /\ last.op = "status"
    /\ ~last.pre0[1].running
    /\ last.pre0[1].jobs = {}
    /\ schedState = "stopped"
    /\ pc["job1"] = "resolve"
    /\ tokens # <<>>

\* called while running with a cycle in flight and the job due, and before start()
C27_WitnessRunning ==
    /\ last.op = "status"
    /\ last.pre0[1].running
    /\ schedState = "running"
    /\ due
    /\ pc["job1"] = "aqi_check"

C27_WitnessBeforeStart ==
    /\ last.op = "status"
    /\ ~last.pre0[1].running
    /\ schedState = "init"

\* C28: every evaluation pass runs _auto_resolve_alerts, and after both open
\* checks: a context in a pass goes from the AQI check (and its commit) to the noise
\* check (and its commit) to the auto-resolve and returns only from there, whatever
\* the checks decided and whether or not they raised; and the auto-resolve, once
\* reached, can run.
PassOrder ==
    {<<"aqi_check", "aqi_open">>, <<"aqi_check", "noise_check">>,
     <<"aqi_open", "noise_check">>,
     <<"noise_check", "noise_open">>, <<"noise_check", "resolve">>,
     <<"noise_open", "resolve">>,
     <<"resolve", "idle">>}

C28_AutoResolveAlwaysRuns ==
    /\ [][\A p \in Procs :
             (pc[p] \in PassPcs /\ pc'[p] # pc[p]) => <<pc[p], pc'[p]>> \in PassOrder]_vars
    /\ [](\A p \in Procs : pc[p] = "resolve" => ENABLED AutoResolve(p, "none"))

\* the only measurement is above the threshold, no alert exists and no thread was
\* started: the open check of this pass raised, and the pass is at its auto-resolve
C28_Witness ==
    /\ pc = [p \in Procs |-> IF p = "req" THEN "resolve" ELSE "idle"]
    /\ Len(measurements) = 1
    /\ AqiShouldOpen(measurements, alerts, now)
    /\ alerts = <<>>
    /\ dispatches = <<>>

\* at the auto-resolve with an empty window
C28_WitnessEmptyWindow ==
    /\ pc["req"] = "resolve"
    /\ measurements # <<>>
    /\ RecentRecords(measurements, now) = {}

\* at the auto-resolve with an Active high_aqi record whose thread has ended, over
\* a window above the threshold
C28_WitnessAlertExists ==
    /\ pc["req"] = "resolve"
    /\ AqiWindowTriggers(measurements, now)
    /\ \E d \in DOMAIN dispatches :
          /\ dispatches[d].st # "pending"
          /\ dispatches[d].alert \in ActiveIds(alerts, "high_aqi")

\* at the auto-resolve outside the quiet hours, the latest measurement loud
C28_WitnessNotQuiet ==
    /\ pc["req"] = "resolve"
    /\ ~QuietNow
    /\ MostRecent.noise > noise_threshold

----------------------------------------------------------------------------
(* Properties of the two rule families as functions of the store (HourSpec) *)

\* C29: applied to any reachable store, the AQI open check and the AQI part of the
\* auto-resolve add and change only high_aqi records, the noise open check and the
\* noise part of the auto-resolve only high_noise records, and the two open checks
\* applied in either order leave the same records: the old ones as they were and
\* the same new ones, which differ only in the order of their insertion.
OnlyTouches(before, after, type) ==
    /\ Len(after) >= Len(before)
    /\ \A i \in DOMAIN after :
          IF i \in DOMAIN before
          THEN after[i] # before[i]
                  => (before[i].alert_type = type /\ after[i].alert_type = type)
          ELSE after[i].alert_type = type

Copies(al, r) == Cardinality({i \in DOMAIN al : al[i] = r})
SameRecords(a, b) ==
    /\ Len(a) = Len(b)
    /\ \A i \in DOMAIN a : Copies(a, a[i]) = Copies(b, a[i])

C29_RuleFamiliesDisjoint ==
    /\ OnlyTouches(alerts, CheckAqiAlert(measurements, alerts, now), "high_aqi")
    /\ OnlyTouches(alerts, AutoResolveAqi(measurements, alerts, now), "high_aqi")
    /\ OnlyTouches(alerts, CheckNoiseAlert(measurements, alerts, now), "high_noise")
    /\ OnlyTouches(alerts, AutoResolveNoise(measurements, alerts, now), "high_noise")
    /\ LET aqiFirst ==
              CheckNoiseAlert(measurements, CheckAqiAlert(measurements, alerts, now), now)
           noiseFirst ==
              CheckAqiAlert(measurements, CheckNoiseAlert(measurements, alerts, now), now)
       IN  /\ SameRecords(aqiFirst, noiseFirst)
           /\ \A i \in DOMAIN alerts : aqiFirst[i] = alerts[i] /\ noiseFirst[i] = alerts[i]

\* a store on which both open checks open, beside a Resolved record of each type
C29_Witness ==
    /\ AqiShouldOpen(measurements, alerts, now)
    /\ NoiseShouldOpen(measurements, alerts, now)
    /\ \E i, j \in DOMAIN alerts :
          /\ alerts[i].alert_type = "high_aqi"
          /\ alerts[j].alert_type = "high_noise"

\* a store on which the AQI auto-resolve resolves beside an Active high_noise record
\* that stays, and one on which the noise auto-resolve resolves beside an Active
\* high_aqi record that stays
C29_WitnessResolveAqi ==
    /\ AqiShouldResolve(measurements)
    /\ ~NoiseShouldResolve(measurements, now)
    /\ ActiveIds(alerts, "high_aqi") # {}
    /\ ActiveIds(alerts, "high_noise") # {}

C29_WitnessResolveNoise ==
    /\ ~AqiShouldResolve(measurements)
    /\ NoiseShouldResolve(measurements, now)
    /\ ActiveIds(alerts, "high_aqi") # {}
    /\ ActiveIds(alerts, "high_noise") # {}

----------------------------------------------------------------------------
(* Properties of one evaluation pass, continued (SeqSpec) *)

\* C30: on one store and at one hour the open condition and the auto-resolve
\* condition of a rule never hold together, and every record a pass has created
\* is Active, with no resolved_at, when the pass ends.
C30_OpenedStaysActive ==
    /\ ~(AqiWindowTriggers(measurements, now) /\ AqiShouldResolve(measurements))
    /\ ~(NoiseTriggers(measurements, now) /\ NoiseShouldResolve(measurements, now))
    /\ IsPass =>
          \A i \in Created :
              alerts[i].status = "Active" /\ alerts[i].resolved_at = NoTime

\* a pass has opened an alert of each type; a measurement outside the window is at
\* or below the threshold
C30_Witness ==
    /\ IsPass
    /\ CreatedOfType("high_aqi") # {}
    /\ CreatedOfType("high_noise") # {}
    /\ \E k \in DOMAIN measurements :
          k \notin Window /\ measurements[k].aqi <= aqi_threshold

\* a pass has resolved an Active record of each type and opened none
C30_WitnessResolves ==
    /\ IsPass
    /\ Created = {}
    /\ \E i, j \in DOMAIN last.pre :
          /\ last.pre[i].alert_type = "high_aqi"
          /\ last.pre[j].alert_type = "high_noise"
          /\ last.pre[i].status = "Active" /\ alerts[i].status = "Resolved"
          /\ last.pre[j].status = "Active" /\ alerts[j].status = "Resolved"

----------------------------------------------------------------------------
(* Properties of the scheduler under fair scheduling (LiveSpec) *)

\* C31: if from some point on every fetch succeeds with an aqi at or below the
\* threshold and is stored, then every high_aqi record that is Active while the
\* scheduler runs is eventually Resolved; and the auto-resolve of a cycle whose
\* measurement, at or below the threshold, is the most recent one leaves no
\* high_aqi record Active, however few measurements the window holds.
GoodFetch ==
    \A p \in Cycles :
        (pc[p] = "fetch" /\ pc'[p] # "fetch") =>
            /\ pc'[p] = "aqi_check"
            /\ measurements'[loc'[p].mid].aqi <= aqi_threshold
            /\ GetLatest(measurements') = loc'[p].mid

ActiveAqi(i) ==
    /\ i \in DOMAIN alerts
    /\ alerts[i].alert_type = "high_aqi"
    /\ alerts[i].status = "Active"

C31_EventuallyResolved ==
    /\ (<>[][GoodFetch]_vars) =>
          \A i \in 1..MaxRaceAlerts :
              (ActiveAqi(i) /\ schedState = "running")
                  ~> (i \in DOMAIN alerts /\ alerts[i].status = "Resolved")
    /\ [][\A p \in Cycles :
             (/\ pc[p] = "resolve"
              /\ pc'[p] = "idle"
              /\ GetLatest(measurements) = loc[p].mid
              /\ measurements[loc[p].mid].aqi <= aqi_threshold)
                 => ActiveIds(alerts', "high_aqi") = {}]_vars

\* two measurements: the first, above the threshold, opened the alert; the cycle
\* that stored the second, at the threshold, has resolved it
C31_Witness ==
    /\ schedState = "running"
    /\ Len(measurements) = 2
    /\ measurements[1].aqi > aqi_threshold
    /\ measurements[2].aqi <= aqi_threshold
    /\ \E d \in DOMAIN dispatches :
          /\ alerts[dispatches[d].alert].alert_type = "high_aqi"
          /\ alerts[dispatches[d].alert].status = "Resolved"
    /\ pc = [p \in Procs |-> "idle"]

----------------------------------------------------------------------------
(* Properties of the quiet-hours test under every configuration (QuietSpec) *)

\* C32: for every start and end in 0..23 and every hour h the quiet-hours test
\* agrees with the circular interval from start (inclusive) to end (exclusive):
\* when start > end, h is quiet iff h >= start or h < end, and when start < end,
\* h is quiet iff start <= h < end.
C32_QuietHoursCircular ==
    last.op = "quiet" =>
        LET start == last.pre[1]
            end == last.pre[2]
            h == last.pre[3]
            quiet == last.pre0[1]
        IN  /\ start > end => (quiet <=> (h >= start \/ h < end))
            /\ start < end => (quiet <=> (start <= h /\ h < end))

\* the half of it about a window over midnight, which the test meets
QuietHoursOverMidnight ==
    (last.op = "quiet" /\ last.pre[1] > last.pre[2]) =>
        (last.pre0[1] <=> (last.pre[3] >= last.pre[1] \/ last.pre[3] < last.pre[2]))

\* a window within one day, 8 to 18, tested at 20 h: found quiet
QuietHoursSameDayAfterEnd ==
    /\ last.op = "quiet"
    /\ last.pre = <<8, 18, 20>>
    /\ last.pre0 = <<TRUE>>

----------------------------------------------------------------------------
(* Properties of the alert listing (ListSpec) *)

\* C34: in every state the listing with include_resolved=true holds every row of
\* the listing with include_resolved=false: every Active alert, whatever its age,
\* is in the listing that includes the resolved alerts.
C34_IncludeResolvedSuperset ==
    get_alerts(alerts, now, FALSE) \subseteq get_alerts(alerts, now, TRUE)

\* what the listing with include_resolved=true does hold: the rows of the last 24
\* hours, Active or Resolved, and so every Active row of that age
ListingHoldsLastDay ==
    \A i \in DOMAIN alerts :
        i \in get_alerts(alerts, now, TRUE) <=> now - alerts[i].timestamp <= 24 * 60

\* a high_aqi alert opened by an upload 26 hours ago, still Active after a later
\* upload above the threshold, has just been listed with include_resolved=true
\* and is not in the listing
ActiveAlertOlderThanADay ==
    /\ last.op = "list"
    /\ last.pre = <<TRUE>>
    /\ \E i \in DOMAIN alerts :
          /\ alerts[i].status = "Active"
          /\ alerts[i].message.about = "high_aqi"
          /\ now - alerts[i].timestamp = 26 * 60
          /\ i \notin last.pre0[1]
    /\ Len(measurements) = 2
    /\ measurements[2].ts > measurements[1].ts

----------------------------------------------------------------------------
(* Properties of resolve_alert (ResolveSpec) *)

\* C35: resolve_alert(id) returns true if and only if a record with that id
\* exists; after a true return that record is Resolved with resolved_at set, as the
\* auto-resolve pass leaves a record it resolves, and every other record is
\* unchanged; for an unknown id it returns false and no record changes.
C35_ResolveAlertReturn ==
    last.op = "resolve" =>
        LET pre == last.pre
            id == last.pre0[1]
            returned == last.pre0[2]
            auto == AutoResolveAlerts(measurements, pre, now)
        IN  /\ returned <=> id \in 1..Len(pre)
            /\ Len(alerts) = Len(pre)
            /\ returned =>
                  /\ alerts[id].status = "Resolved"
                  /\ alerts[id].resolved_at = now
                  /\ alerts[id].alert_type = pre[id].alert_type
                  /\ alerts[id].message = pre[id].message
                  /\ \A j \in DOMAIN pre : j # id => alerts[j] = pre[j]
                  /\ (pre[id].status = "Active" /\ auto[id].status = "Resolved")
                        => alerts[id] = auto[id]
            /\ ~returned => alerts = pre

\* a true return on an Active record that the auto-resolve pass would resolve too
C35_Witness ==
    /\ last.op = "resolve"
    /\ last.pre0[2]
    /\ last.pre[last.pre0[1]].status = "Active"
    /\ AutoResolveAlerts(measurements, last.pre, now)[last.pre0[1]].status = "Resolved"
    /\ Len(alerts) = 2

\* a false return for an unknown id while records exist
C35_WitnessUnknownId ==
    /\ last.op = "resolve"
    /\ ~last.pre0[2]
    /\ last.pre0[1] = 2
    /\ Len(alerts) = 1
    /\ alerts[1].status = "Active"

\* a true return on a record that was Resolved before
C35_WitnessAlreadyResolved ==
    /\ last.op = "resolve"
    /\ last.pre0[2]
    /\ last.pre[last.pre0[1]].status = "Resolved"

----------------------------------------------------------------------------
(* Properties of unregistration and delivery (TokenSpec) *)

IsActiveToken(tok, x) == \E i \in DOMAIN tok : tok[i].token = x /\ tok[i].is_active

\* C36: deactivate_token(t) returns true exactly when a row for t exists, also when
\* it is inactive already, and leaves t inactive; it returns false and changes
\* nothing otherwise.  An inactive endpoint becomes active only by
\* register_token(t); a notification thread that reads the endpoints while t is
\* inactive does not hold t, and a thread attempts delivery only to endpoints it
\* holds: so no dispatch that starts after t became inactive delivers to t until
\* t is registered again.
C36_InactiveGetsNoDelivery ==
    /\ [](last.op = "deactivate" =>
            LET pre == last.pre
                x == last.pre0[1]
                returned == last.pre0[2]
            IN  /\ returned <=> \E i \in DOMAIN pre : pre[i].token = x
                /\ returned => ~IsActiveToken(tokens, x)
                /\ returned => \A i \in DOMAIN pre :
                                  pre[i].token # x => tokens[i] = pre[i]
                /\ Len(tokens) = Len(pre)
                /\ ~returned => tokens = pre)
    /\ [](\A d \in DOMAIN dispatches : \A x \in Tokens :
            dispatches[d].att[x] > 0 => x \in dispatches[d].snap)
    /\ [][/\ \A x \in Tokens :
                (~IsActiveToken(tokens, x) /\ IsActiveToken(tokens', x))
                    => (last'.op = "register" /\ last'.pre0 = <<x>>)
          /\ \A d \in DOMAIN dispatches : \A x \in Tokens :
                (/\ dispatches[d].st = "pending"
                 /\ dispatches'[d].st # "pending"
                 /\ ~IsActiveToken(tokens, x))
                    => (x \notin dispatches'[d].snap /\ dispatches'[d].att[x] = 0)
          /\ \A d \in DOMAIN dispatches :
                dispatches[d].st # "pending" => dispatches'[d].snap = dispatches[d].snap
         ]_vars

\* t1 was unregistered, then a thread read the endpoints and sent: one attempt, to
\* t2, and none to t1
C36_Witness ==
    /\ ~IsActiveToken(tokens, "t1")
    /\ \E i \in DOMAIN tokens : tokens[i].token = "t1"
    /\ \E d \in DOMAIN dispatches :
          /\ dispatches[d].st = "sent"
          /\ dispatches[d].snap = {"t2"}
          /\ dispatches[d].att["t1"] = 0
          /\ dispatches[d].att["t2"] = 1

\* deactivate_token on an endpoint that is inactive already returns true
C36_WitnessAlreadyInactive ==
    /\ last.op = "deactivate"
    /\ last.pre0[2]
    /\ ~IsActiveToken(last.pre, last.pre0[1])

\* deactivate_token on an unknown endpoint returns false
C36_WitnessUnknown ==
    /\ last.op = "deactivate"
    /\ ~last.pre0[2]
    /\ Len(tokens) = 1

\* an endpoint made inactive by a permanent failure of one thread is not held by
\* the thread that reads afterwards
C36_WitnessPermanent ==
    \E d, e \in DOMAIN dispatches :
        /\ dispatches[d].st = "sent"
        /\ dispatches[d].res["t1"] = "permanent"
        /\ dispatches[e].st = "sent"
        /\ dispatches[e].snap = {"t2"}
        /\ dispatches[e].att["t2"] = 1

\* a thread that read the endpoints before the unregistration still holds t1
C36_WitnessReadBefore ==
    /\ last.op = "deactivate"
    /\ last.pre0[1] = "t1"
    /\ \E d \in DOMAIN dispatches :
          dispatches[d].st = "sending" /\ "t1" \in dispatches[d].snap

----------------------------------------------------------------------------
(* Properties of the scheduled cycle and the noise rule (Spec) *)

\* C33: the measurement a fetch cycle stores has no noise value; whenever that
\* measurement is the most recent one when the cycle's noise open check runs, the
\* check yields no decision and the cycle opens no high_noise alert; and when it is
\* the most recent one at the cycle's auto-resolve during quiet hours, every
\* Active high_noise record is still Active after it.
C33_CycleOpensNoNoiseAlert ==
    [][\A p \in Cycles :
          /\ (pc[p] = "fetch" /\ pc'[p] = "aqi_check")
                => /\ loc'[p].mid = Len(measurements')
                   /\ measurements'[loc'[p].mid].noise = NoNoise
          /\ (/\ pc[p] = "noise_check"
              /\ pc'[p] # "noise_check"
              /\ GetLatest(measurements) = loc[p].mid)
                => (pc'[p] # "noise_open" /\ alerts' = alerts)
          /\ (/\ pc[p] = "resolve"
              /\ pc'[p] # "resolve"
              /\ GetLatest(measurements) = loc[p].mid
              /\ Hour(now) >= quiet_hours_start \/ Hour(now) < quiet_hours_end)
                => \A i \in DOMAIN alerts :
                      (alerts[i].alert_type = "high_noise" /\ alerts[i].status = "Active")
                          => alerts'[i] = alerts[i]
      ]_vars

\* C33 as stated: no step of a fetch cycle opens a high_noise alert, whichever
\* measurement is the most recent one
C33_CycleNeverOpensNoiseAlert ==
    [][\A p \in Cycles :
          /\ (pc[p] = "fetch" /\ pc'[p] = "aqi_check")
                => measurements'[loc'[p].mid].noise = NoNoise
          /\ pc[p] = "noise_check" => pc'[p] # "noise_open"
          /\ (pc[p] = "noise_open" /\ pc'[p] # "noise_open")
                => \A i \in DOMAIN alerts' :
                      i > Len(alerts) => alerts'[i].alert_type # "high_noise"
      ]_vars

\* in quiet hours a cycle whose measurement is the most recent one has ended, and
\* the high_noise record that was Active before it is Active still
C33_Witness ==
    /\ Hour(now) = 22
    /\ Len(measurements) = 2
    /\ measurements[1].noise = 85
    /\ measurements[2].noise = NoNoise
    /\ measurements[2].ts > measurements[1].ts
    /\ Len(alerts) = 1
    /\ alerts[1].alert_type = "high_noise"
    /\ alerts[1].status = "Active"
    /\ pc = [p \in Procs |-> "idle"]
    /\ listened = "executed"

\* the case the condition leaves out: an uploaded measurement with a noise value is
\* the most recent one when a cycle's check runs, and the cycle goes on to open
C33_WitnessUploadMostRecent ==
    \E p \in Cycles :
        /\ pc[p] = "noise_open"
        /\ GetLatest(measurements) # loc[p].mid
        /\ measurements[loc[p].mid].noise = NoNoise

====
